---- MODULE Spec2Model ----
(***************************************************************************)
(* Race-weekend temporal model of the F1 calendar application:             *)
(* the window of a race (getEventDateRange), its classification            *)
(* (getRaceStatus) and the countdown to the next race (HeroCountdown).     *)
(*                                                                         *)
(* Instants are JavaScript Date time values in milliseconds.  A JavaScript *)
(* value that may stand where a Date is expected is a record               *)
(*   [kind |-> "date" | "invalid" | "undefined" | "null", t |-> ms].       *)
(***************************************************************************)
EXTENDS Integers, Sequences, FiniteSets, TLC

VARIABLES
    race,       \* the Race record handed to the component under evaluation
    isPast,     \* the isPast prop handed to a race card
    now,        \* the wall clock: what new Date() returns, in ms
    out,        \* the value returned by the last evaluation
    races,      \* HeroCountdown: the races prop (the schedule)
    mounted,    \* HeroCountdown: whether the component is mounted
    nextRace,   \* HeroCountdown: the memoised next race, an index into races (0: none)
    raceDate,   \* HeroCountdown: the memoised target instant (null: none)
    timeLeft,   \* HeroCountdown: the timeLeft state
    timers,     \* the number of interval timers the countdown has running
    zone,       \* the viewer's time zone: what getHours and setHours go by
    event,      \* EventItem: the date and time props of the session shown
    country,    \* the key looked up: a country of a circuit, a nationality
    isOpen,     \* RaceDetails: the isOpen prop
    raceResults,\* RaceDetails: the raceResults state
    loading,    \* RaceDetails: the loading state
    error,      \* RaceDetails: the error state
    pending,    \* the fetchRaceResults calls not answered yet
    requests,   \* the number of fetchRaceResults calls made so far
    items,      \* RaceDetails: the EventItems of the schedule tab, in order
    lists,      \* Index: the lists (past, current, upcoming) the race was put in
    pageMounted,\* Index: whether the calendar page is mounted
    activeTab,  \* Index: the activeTab state
    listeners,  \* the "tabChange" listeners on the document (function identities)
    closures,   \* the number of listener functions created so far
    standings,  \* the standings list: the points of each entry, in order
    bars        \* the pointsPercentage computed for each entry, in order

vars == <<race, isPast, now, out, races, mounted, nextRace, raceDate, timeLeft, timers,
          zone, event, country, isOpen, raceResults, loading, error, pending, requests,
          items, lists, pageMounted, activeTab, listeners, closures, standings, bars>>
renderVars == <<race, isPast>>
countdownVars == <<races, mounted, nextRace, raceDate, timeLeft, timers>>
dialogVars == <<isOpen, raceResults, loading, error, pending, requests, items>>
pageVars == <<lists, pageMounted, activeTab, listeners, closures, standings, bars>>
detailsVars == <<zone, event, country, pageVars, dialogVars>>

----------------------------------------------------------------------------
(* Bounds of the model                                                     *)

\* calendar days 0..MaxDay are the dates the schedule may name
MaxDay == 1
\* the schedule handed to the countdown holds 1..MaxRaces races
MaxRaces == 2

\* milliseconds in a second, seconds in a day (Date arithmetic)
MsPerSecond == 1000
SecondsPerDay == 86400
\* the one time-of-day the schedule names besides "no time": 12:00:00Z
Noon == 43200

----------------------------------------------------------------------------
(* JavaScript values                                                       *)

DateValue(ms) == [kind |-> "date", t |-> ms]
InvalidDate == [kind |-> "invalid", t |-> 0]
undefined == [kind |-> "undefined", t |-> 0]
null == [kind |-> "null", t |-> 0]

\* ToNumber of the operand of a relational operator: a valid Date gives its
\* time value, null gives 0, an Invalid Date and undefined give NaN.
IsNumber(v) == v.kind \in {"date", "null"}
ToNumber(v) == IF v.kind = "date" THEN v.t ELSE 0

\* a < b and a > b in JavaScript: false as soon as one side is NaN
JsLess(a, b) == IsNumber(a) /\ IsNumber(b) /\ ToNumber(a) < ToNumber(b)
JsGreater(a, b) == JsLess(b, a)

\* !v : a Date object (valid or not) is truthy, null and undefined are falsy
Falsy(v) == v.kind \in {"undefined", "null"}

----------------------------------------------------------------------------
(* Race records, as the schedule service delivers them                     *)

\* A session of the schedule: absent (the record has no such field), or
\* present with a date string, well formed (dateOk, naming day `day`) or
\* malformed, and a time string "HH:MM:SSZ", given (`sec` seconds after
\* midnight) or missing.
NoSession == [present |-> FALSE, dateOk |-> FALSE, day |-> 0, timeGiven |-> FALSE, sec |-> 0]
BadDateSession == [NoSession EXCEPT !.present = TRUE]
TimedSession(d) == [present |-> TRUE, dateOk |-> TRUE, day |-> d, timeGiven |-> TRUE, sec |-> Noon]
UntimedSession(d) == [present |-> TRUE, dateOk |-> TRUE, day |-> d, timeGiven |-> FALSE, sec |-> 0]

\* the optional sessions: absent, malformed, or a day at noon
Sessions == {NoSession, BadDateSession} \cup {TimedSession(d) : d \in 0..MaxDay}
\* the main race (race.date, race.time): always present, its time optional
MainSessions ==
    {BadDateSession} \cup {TimedSession(d) : d \in 0..MaxDay}
                     \cup {UntimedSession(d) : d \in 0..MaxDay}

Races ==
    [FirstPractice : Sessions, SecondPractice : Sessions, ThirdPractice : Sessions,
     SprintQualifying : Sessions, Sprint : Sessions, Qualifying : Sessions,
     Race : MainSessions]

----------------------------------------------------------------------------
(* date-fns                                                                *)

\* parseISO(`${date}T${time}`): the instant of a well-formed string, an
\* Invalid Date otherwise
parseISO(s, time) ==
    IF s.dateOk
    THEN DateValue((s.day * SecondsPerDay + time) * MsPerSecond)
    ELSE InvalidDate

\* isValid(v): false for anything that is neither a Date nor a number, and
\* for an Invalid Date
isValid(v) == v.kind = "date"

\* variant: a session without a time is put at noon
TimeOrMidnight_Noon(s) == IF s.timeGiven THEN s.sec ELSE Noon

\* time || '00:00:00Z'
TimeOrMidnight(s) == IF s.timeGiven THEN s.sec ELSE 0

\* race.X && parseISO(`${race.X.date}T${race.X.time || '00:00:00Z'}`)
SessionDate(s) ==
    IF s.present THEN parseISO(s, TimeOrMidnight(s)) ELSE undefined

\* parseISO(`${race.date}T${race.time || '00:00:00Z'}`)
RaceDate(r) == parseISO(r.Race, TimeOrMidnight(r.Race))

----------------------------------------------------------------------------
(* Array.prototype.reduce without an initial value                         *)

RECURSIVE ReduceFrom(_, _, _, _)
ReduceFrom(Pick(_, _), acc, s, i) ==
    IF i > Len(s) THEN acc
    ELSE ReduceFrom(Pick, Pick(acc, s[i]), s, i + 1)

\* dates.reduce((min, date) => date < min ? date : min)
MinStep(min, date) == IF JsLess(date, min) THEN date ELSE min
ReduceMin(dates) == ReduceFrom(MinStep, dates[1], dates, 2)

\* dates.reduce((max, date) => date > max ? date : max)
MaxStep(max, date) == IF JsGreater(date, max) THEN date ELSE max
ReduceMax(dates) == ReduceFrom(MaxStep, dates[1], dates, 2)

Window(dates) ==
    IF Len(dates) = 0
    THEN [startDate |-> null, endDate |-> null]
    ELSE [startDate |-> ReduceMin(dates), endDate |-> ReduceMax(dates)]

----------------------------------------------------------------------------
(* getEventDateRange, once per file that defines it                        *)

\* .filter((date): date is Date => date !== null && isValid(date))
KeepValid(d) == d # null /\ isValid(d)
\* .filter((date): date is Date => date !== null)
KeepNonNull(d) == d # null

\* components/RaceDetails.tsx (the details dialog)
Dates_Details(r) ==
    <<SessionDate(r.FirstPractice), SessionDate(r.SecondPractice),
      SessionDate(r.ThirdPractice), SessionDate(r.SprintQualifying),
      SessionDate(r.Sprint), SessionDate(r.Qualifying), RaceDate(r)>>
getEventDateRange_Details(r) == Window(SelectSeq(Dates_Details(r), KeepValid))

\* the race card with status icons
Dates_Card(r) ==
    <<SessionDate(r.FirstPractice), SessionDate(r.SecondPractice),
      SessionDate(r.ThirdPractice), SessionDate(r.SprintQualifying),
      SessionDate(r.Sprint), SessionDate(r.Qualifying), RaceDate(r)>>
getEventDateRange_Card(r) == Window(SelectSeq(Dates_Card(r), KeepValid))

\* the race card with flag emojis
Dates_EmojiCard(r) ==
    <<SessionDate(r.FirstPractice), SessionDate(r.SecondPractice),
      SessionDate(r.ThirdPractice), SessionDate(r.SprintQualifying),
      SessionDate(r.Sprint), SessionDate(r.Qualifying), RaceDate(r)>>
getEventDateRange_EmojiCard(r) == Window(SelectSeq(Dates_EmojiCard(r), KeepValid))

\* pages/Index.tsx (the calendar page): six candidates, no sprint
\* qualifying, and a filter that drops null only
Dates_Index(r) ==
    <<SessionDate(r.FirstPractice), SessionDate(r.SecondPractice),
      SessionDate(r.ThirdPractice), SessionDate(r.Qualifying),
      SessionDate(r.Sprint), RaceDate(r)>>
getEventDateRange_Index(r) == Window(SelectSeq(Dates_Index(r), KeepNonNull))

Files == {"Details", "Card", "EmojiCard", "Index"}

getEventDateRange(file, r) ==
    CASE file = "Details" -> getEventDateRange_Details(r)
      [] file = "Card" -> getEventDateRange_Card(r)
      [] file = "EmojiCard" -> getEventDateRange_EmojiCard(r)
      [] file = "Index" -> getEventDateRange_Index(r)

----------------------------------------------------------------------------
(* getRaceStatus, once per file that defines it                            *)

\* isWithinInterval(date, {start, end}): start <= date <= end on the time
\* values, for an interval of two valid dates, start <= end; an invalid
\* time value makes every comparison false.
isWithinInterval(date, start, end) ==
    /\ isValid(date) /\ isValid(start) /\ isValid(end)
    /\ start.t <= date.t
    /\ date.t <= end.t

\* variant: the isPast prop tested before the null window
getRaceStatus_Card_HintFirst(startDate, endDate, past, clock) ==
    IF past THEN "past"
    ELSE IF Falsy(startDate) \/ Falsy(endDate) THEN "upcoming"
    ELSE IF isWithinInterval(DateValue(clock), startDate, endDate) THEN "current"
    ELSE "upcoming"

\* variant: the card decides "past" from the clock, as the dialog does
getRaceStatus_Card_PastByClock(startDate, endDate, past, clock) ==
    IF Falsy(startDate) \/ Falsy(endDate) THEN "upcoming"
    ELSE IF past \/ JsLess(endDate, DateValue(clock)) THEN "past"
    ELSE IF isWithinInterval(DateValue(clock), startDate, endDate) THEN "current"
    ELSE "upcoming"

\* the race card with status icons: null window, then the isPast prop,
\* then the interval
getRaceStatus_Card(startDate, endDate, past, clock) ==
    IF Falsy(startDate) \/ Falsy(endDate) THEN "upcoming"
    ELSE IF past THEN "past"
    ELSE IF isWithinInterval(DateValue(clock), startDate, endDate) THEN "current"
    ELSE "upcoming"

\* variant: the interval tested before the isPast prop
getRaceStatus_EmojiCard_IntervalFirst(startDate, endDate, past, clock) ==
    IF Falsy(startDate) \/ Falsy(endDate) THEN "upcoming"
    ELSE IF isWithinInterval(DateValue(clock), startDate, endDate) THEN "current"
    ELSE IF past THEN "past"
    ELSE "upcoming"

\* the race card with flag emojis: the same order of tests
getRaceStatus_EmojiCard(startDate, endDate, past, clock) ==
    IF Falsy(startDate) \/ Falsy(endDate) THEN "upcoming"
    ELSE IF past THEN "past"
    ELSE IF isWithinInterval(DateValue(clock), startDate, endDate) THEN "current"
    ELSE "upcoming"

\* variant: endDate <= now, the end of the window excluded
getRaceStatus_Details_EndExclusive(startDate, endDate, clock) ==
    IF Falsy(startDate) \/ Falsy(endDate) THEN "upcoming"
    ELSE IF ~JsLess(DateValue(clock), endDate) THEN "past"
    ELSE IF isWithinInterval(DateValue(clock), startDate, endDate) THEN "current"
    ELSE "upcoming"

\* components/RaceDetails.tsx: no isPast parameter; endDate < now instead
getRaceStatus_Details(startDate, endDate, clock) ==
    IF Falsy(startDate) \/ Falsy(endDate) THEN "upcoming"
    ELSE IF JsLess(endDate, DateValue(clock)) THEN "past"
    ELSE IF isWithinInterval(DateValue(clock), startDate, endDate) THEN "current"
    ELSE "upcoming"

----------------------------------------------------------------------------
(* Local time, and the live check of one session (EventItem)               *)

HourMs == 3600000
\* eventEnd.setHours(eventEnd.getHours() + 2)
EventHours == 2

\* A time zone, relative to its standard offset: no clock change, or one
\* change of `shift` ms (clocks forward: positive) at the instant `at`.
UTC == [shift |-> 0, at |-> 0]
ClockChange(s, t) == [shift |-> s, at |-> t]

\* the offset of local time at instant t
LocalOffset(z, t) == IF z.shift # 0 /\ t >= z.at THEN z.shift ELSE 0
\* LocalTime(t): the local time value the hour field is read from
LocalTime(z, t) == t + LocalOffset(z, t)
\* UTC(tlocal): a local time that the change skips or repeats is read with
\* the offset in force before the change
UtcOf(z, tlocal) ==
    IF z.shift = 0 \/ tlocal < z.at THEN tlocal
    ELSE IF tlocal - z.shift >= z.at THEN tlocal - z.shift
    ELSE tlocal

\* d.setHours(d.getHours() + h): h hours later on the local clock
AddLocalHours(z, d, h) == DateValue(UtcOf(z, LocalTime(z, d.t) + h * HourMs))

\* EventItem.isCurrentEvent, for the props e = {date, time}: no live
\* session without a date (~e.present) or without a time
isCurrentEvent(z, e, clock) ==
    IF ~e.present \/ ~e.timeGiven THEN FALSE
    ELSE LET eventDate == parseISO(e, e.sec)
         IN IF ~isValid(eventDate) THEN FALSE
            ELSE isWithinInterval(DateValue(clock), eventDate,
                                  AddLocalHours(z, eventDate, EventHours))

----------------------------------------------------------------------------
(* State                                                                   *)

\* nothing evaluated yet
Idle == [op |-> "none", file |-> "none", startDate |-> null, endDate |-> null,
         now |-> 0, isPast |-> FALSE, status |-> "none"]

\* useState({ days: 0, hours: 0, minutes: 0, seconds: 0 })
NoTimeLeft == [days |-> 0, hours |-> 0, minutes |-> 0, seconds |-> 0]

\* the countdown is not on the page
CountdownOff ==
    /\ races = <<>>
    /\ mounted = FALSE
    /\ nextRace = 0
    /\ raceDate = null
    /\ timeLeft = NoTimeLeft
    /\ timers = 0

\* the details dialog is closed and has fetched nothing
DialogClosed ==
    /\ isOpen = FALSE
    /\ raceResults = null
    /\ loading = FALSE
    /\ error = null
    /\ pending = {}
    /\ requests = 0
    /\ items = <<>>

\* the calendar page and the standings are not on the screen
PageOff ==
    /\ lists = {}
    /\ pageMounted = FALSE
    /\ activeTab = "calendar"
    /\ listeners = {}
    /\ closures = 0
    /\ standings = <<>>
    /\ bars = <<>>

\* no dialog, no EventItem
DetailsOff ==
    /\ zone = UTC
    /\ event = NoSession
    /\ country = ""
    /\ PageOff
    /\ DialogClosed

\* getEventDateRange(race) is evaluated in `file`
EvalWindow(file) ==
    /\ LET w == getEventDateRange(file, race)
       IN out' = [Idle EXCEPT !.op = "getEventDateRange", !.file = file,
                              !.startDate = w.startDate, !.endDate = w.endDate]
    /\ UNCHANGED <<detailsVars, race, isPast, now, countdownVars>>

Window_Details == EvalWindow("Details")
Window_Card == EvalWindow("Card")
Window_EmojiCard == EvalWindow("EmojiCard")
Window_Index == EvalWindow("Index")

\* every race record of the bounded schedule, window functions applied to it
InitWindow ==
    /\ race \in Races
    /\ isPast = FALSE
    /\ now = 0
    /\ out = Idle
    /\ CountdownOff
    /\ DetailsOff

NextWindow == Window_Details \/ Window_Card \/ Window_EmojiCard \/ Window_Index

SpecWindow == InitWindow /\ [][NextWindow]_vars

----------------------------------------------------------------------------
(* Rendering a race card or the details dialog: the window, then the status *)

\* the instants a session of the schedule can have
SessionInstants ==
    {(d * SecondsPerDay + s) * MsPerSecond : d \in 0..MaxDay, s \in {0, Noon}}
\* the wall clock passes one millisecond before, at, and one after each
Clock == {t + e : t \in SessionInstants, e \in {0 - 1, 0, 1}}
ClockStart == CHOOSE t \in Clock : \A u \in Clock : t <= u

\* the records rendered: first practice, qualifying and the race vary
RenderedRaces ==
    {r \in [FirstPractice : Sessions, SecondPractice : {NoSession},
            ThirdPractice : {NoSession}, SprintQualifying : {NoSession},
            Sprint : {NoSession}, Qualifying : Sessions, Race : MainSessions] : TRUE}

\* time passes
Tick ==
    /\ \E t \in Clock : t > now /\ now' = t
    /\ UNCHANGED <<detailsVars, race, isPast, out, countdownVars>>

\* RaceCard({race, isPast}) of the card with status icons
Render_Card ==
    /\ LET w == getEventDateRange_Card(race)
       IN out' = [op |-> "getRaceStatus", file |-> "Card",
                  startDate |-> w.startDate, endDate |-> w.endDate,
                  now |-> now, isPast |-> isPast,
                  status |-> getRaceStatus_Card(w.startDate, w.endDate, isPast, now)]
    /\ UNCHANGED <<detailsVars, race, isPast, now, countdownVars>>

\* RaceCard({race, isPast}) of the card with flag emojis
Render_EmojiCard ==
    /\ LET w == getEventDateRange_EmojiCard(race)
       IN out' = [op |-> "getRaceStatus", file |-> "EmojiCard",
                  startDate |-> w.startDate, endDate |-> w.endDate,
                  now |-> now, isPast |-> isPast,
                  status |-> getRaceStatus_EmojiCard(w.startDate, w.endDate, isPast, now)]
    /\ UNCHANGED <<detailsVars, race, isPast, now, countdownVars>>

\* RaceDetails({race}): the dialog takes no isPast
Render_Details ==
    /\ LET w == getEventDateRange_Details(race)
       IN out' = [op |-> "getRaceStatus", file |-> "Details",
                  startDate |-> w.startDate, endDate |-> w.endDate,
                  now |-> now, isPast |-> FALSE,
                  status |-> getRaceStatus_Details(w.startDate, w.endDate, now)]
    /\ UNCHANGED <<detailsVars, race, isPast, now, countdownVars>>

InitStatus ==
    /\ race \in RenderedRaces
    /\ isPast \in BOOLEAN
    /\ now = ClockStart
    /\ out = Idle
    /\ CountdownOff
    /\ DetailsOff

NextStatus == Tick \/ Render_Card \/ Render_EmojiCard \/ Render_Details

SpecStatus == InitStatus /\ [][NextStatus]_vars

----------------------------------------------------------------------------
(* The window claims, checked under SpecWindow                             *)

OptionalSessions ==
    {"FirstPractice", "SecondPractice", "ThirdPractice", "SprintQualifying",
     "Sprint", "Qualifying"}

\* the valid instants of the sessions present in record r
ValidInstants(r) ==
    {SessionDate(r[x]).t : x \in {y \in OptionalSessions : isValid(SessionDate(r[y]))}}
    \cup (IF isValid(RaceDate(r)) THEN {RaceDate(r).t} ELSE {})

WindowEvaluated == out.op = "getEventDateRange"
SeparateFiles == {"Details", "Card", "EmojiCard"}

\* the window returned is ordered and made of session instants of the record
OrderedAndFromRecord ==
    /\ isValid(out.startDate) /\ isValid(out.endDate)
    /\ out.startDate.t <= out.endDate.t
    /\ out.startDate.t \in ValidInstants(race)
    /\ out.endDate.t \in ValidInstants(race)

\* C1: for every race record with at least one valid session instant,
\* getEventDateRange (in every file that defines it) returns
\* startDate <= endDate, both instants of sessions of the record.
C1_WindowOrderedFromRecord ==
    (WindowEvaluated /\ ValidInstants(race) # {}) => OrderedAndFromRecord

\* C1 holds of the details dialog and of both race cards
C1_OutsideIndex ==
    (WindowEvaluated /\ out.file \in SeparateFiles /\ ValidInstants(race) # {})
        => OrderedAndFromRecord

\* no valid present session instant lies outside [startDate, endDate]
CoversAllSessions ==
    /\ isValid(out.startDate) /\ isValid(out.endDate)
    /\ \A t \in ValidInstants(race) : out.startDate.t <= t /\ t <= out.endDate.t

\* C2: the window is (minimum, maximum) over the valid instants of all
\* seven sessions: no valid present session instant lies before startDate
\* or after endDate, in whatever order the sessions are dated.
C2_WindowIsMinMaxOfAll ==
    (WindowEvaluated /\ ValidInstants(race) # {}) => CoversAllSessions

\* C2 holds of the details dialog and of both race cards
C2_OutsideIndex ==
    (WindowEvaluated /\ out.file \in SeparateFiles /\ ValidInstants(race) # {})
        => CoversAllSessions

\* C3: when no session of the record yields a valid instant, the window
\* returned is the undefined window: startDate and endDate are null (an
\* undefined startDate or endDate, which every caller treats as null, is
\* accepted here too).
C3_NoValidInstantGivesNull ==
    (WindowEvaluated /\ ValidInstants(race) = {})
        => (Falsy(out.startDate) /\ Falsy(out.endDate))

\* C3 holds of the details dialog and of both race cards
C3_OutsideIndex ==
    (WindowEvaluated /\ out.file \in SeparateFiles /\ ValidInstants(race) = {})
        => (out.startDate = null /\ out.endDate = null)

\* the record without its optional session x
Without(r, x) == [r EXCEPT ![x] = NoSession]

\* a proper return value: two valid dates, or the undefined window
ProperWindow ==
    \/ isValid(out.startDate) /\ isValid(out.endDate)
    \/ Falsy(out.startDate) /\ Falsy(out.endDate)

ExcludesUnusable ==
    /\ ProperWindow
    /\ \A x \in OptionalSessions :
         ~isValid(SessionDate(race[x])) =>
            /\ getEventDateRange(out.file, Without(race, x)).startDate = out.startDate
            /\ getEventDateRange(out.file, Without(race, x)).endDate = out.endDate

\* C4: an absent session and a session whose instant fails to parse are
\* excluded from the reduction: the window of the record equals the window
\* of the record without that session, and the computation returns a
\* proper window.
C4_UnusableSessionsExcluded == WindowEvaluated => ExcludesUnusable

\* C4 holds of the details dialog and of both race cards
C4_OutsideIndex ==
    (WindowEvaluated /\ out.file \in SeparateFiles) => ExcludesUnusable

----------------------------------------------------------------------------
(* The classification claims, checked under SpecStatus                     *)

StatusEvaluated == out.op = "getRaceStatus"
WindowUndefined == out.startDate = null \/ out.endDate = null
WindowDefined == isValid(out.startDate) /\ isValid(out.endDate)
CardFiles == {"Card", "EmojiCard"}

\* C5: for an undefined window (startDate or endDate null) getRaceStatus
\* returns upcoming, at every current instant and for both values of the
\* isPast hint.
C5_UndefinedWindowIsUpcoming ==
    (StatusEvaluated /\ WindowUndefined) => out.status = "upcoming"

\* a card given isPast = TRUE for a record without any valid instant
C5_Witness ==
    /\ StatusEvaluated /\ out.file = "Card" /\ WindowUndefined
    /\ out.isPast /\ out.status = "upcoming"

\* C6: with a defined window and the isPast hint true, a race card's
\* getRaceStatus returns past at every current instant, also before
\* startDate and inside the window.
C6_HintGivesPast ==
    (StatusEvaluated /\ out.file \in CardFiles /\ WindowDefined /\ out.isPast)
        => out.status = "past"

\* the hint honoured inside the window
C6_Witness ==
    /\ StatusEvaluated /\ out.file = "EmojiCard" /\ WindowDefined /\ out.isPast
    /\ out.startDate.t < out.now /\ out.now < out.endDate.t
    /\ out.status = "past"

\* the hint honoured before the window starts
C6_WitnessBeforeStart ==
    /\ StatusEvaluated /\ out.file = "Card" /\ WindowDefined /\ out.isPast
    /\ out.now < out.startDate.t
    /\ out.status = "past"

\* C7: getRaceStatus returns current exactly when the window is defined,
\* the hint is false or absent, and startDate <= now <= endDate, both
\* boundaries included.
C7_CurrentIffInsideWindow ==
    StatusEvaluated =>
        (out.status = "current" <=>
            /\ WindowDefined
            /\ ~out.isPast
            /\ out.startDate.t <= out.now
            /\ out.now <= out.endDate.t)

\* the details dialog at the very end of a window that is not a point
C7_Witness ==
    /\ StatusEvaluated /\ out.file = "Details" /\ WindowDefined
    /\ out.startDate.t < out.endDate.t
    /\ out.now = out.endDate.t
    /\ out.status = "current"

\* a card at the very start of its window
C7_WitnessAtStart ==
    /\ StatusEvaluated /\ out.file = "Card" /\ WindowDefined
    /\ out.startDate.t < out.endDate.t
    /\ out.now = out.startDate.t
    /\ out.status = "current"

OutsideWindow == out.now < out.startDate.t \/ out.endDate.t < out.now

\* C8 as stated: with a defined window, no hint and now outside
\* [startDate, endDate], getRaceStatus returns upcoming, both before the
\* window and after it, in the cards and in the details dialog.
C8_OutsideWindowIsUpcoming ==
    (StatusEvaluated /\ WindowDefined /\ ~out.isPast /\ OutsideWindow)
        => out.status = "upcoming"

\* C8 as amended: under the same conditions both race cards return
\* upcoming on either side of the window; the details dialog returns
\* upcoming before the window and past after it.
C8_OutsideWindowByFile ==
    (StatusEvaluated /\ WindowDefined /\ ~out.isPast /\ OutsideWindow)
        => out.status =
             (IF out.file = "Details" /\ out.endDate.t < out.now
              THEN "past" ELSE "upcoming")

\* a card, not told the race is past, after the end of the window
C8_Witness ==
    /\ StatusEvaluated /\ out.file = "Card" /\ WindowDefined /\ ~out.isPast
    /\ out.endDate.t < out.now
    /\ out.status = "upcoming"

\* the details dialog after the end of the window
C8_WitnessDetails ==
    /\ StatusEvaluated /\ out.file = "Details" /\ WindowDefined
    /\ out.endDate.t < out.now
    /\ out.status = "past"

----------------------------------------------------------------------------
(* HeroCountdown                                                           *)

\* a % b in JavaScript, b > 0: the sign of the result is the dividend's
JsRem(a, b) == IF a >= 0 THEN a % b ELSE 0 - ((0 - a) % b)

\* Math.floor(a / b), b > 0
FloorDiv(a, b) == a \div b

\* differenceInSeconds(dateLeft, dateRight): the difference in
\* milliseconds over 1000, rounded towards zero
differenceInSeconds(left, right) ==
    LET ms == left.t - right.t
    IN IF ms >= 0 THEN ms \div MsPerSecond ELSE 0 - ((0 - ms) \div MsPerSecond)

\* variant: hours taken from the whole difference, not from the rest of the day
Decompose_HoursOfTotal(diff) ==
    [days |-> FloorDiv(diff, 60 * 60 * 24),
     hours |-> FloorDiv(diff, 60 * 60),
     minutes |-> FloorDiv(JsRem(diff, 60 * 60), 60),
     seconds |-> JsRem(diff, 60)]

\* variant: minutes taken from the whole difference, not from the rest of the hour
Decompose_MinutesOfTotal(diff) ==
    [days |-> FloorDiv(diff, 60 * 60 * 24),
     hours |-> FloorDiv(JsRem(diff, 60 * 60 * 24), 60 * 60),
     minutes |-> FloorDiv(diff, 60),
     seconds |-> JsRem(diff, 60)]

\* the four buckets of a difference in seconds
Decompose(diff) ==
    [days |-> FloorDiv(diff, 60 * 60 * 24),
     hours |-> FloorDiv(JsRem(diff, 60 * 60 * 24), 60 * 60),
     minutes |-> FloorDiv(JsRem(diff, 60 * 60), 60),
     seconds |-> JsRem(diff, 60)]

\* variant: no test of diff <= 0 before the decomposition
calculateTimeLeft_Unguarded(target, clock) ==
    Decompose(differenceInSeconds(target, DateValue(clock)))

\* calculateTimeLeft: the value handed to setTimeLeft
calculateTimeLeft(target, clock) ==
    LET diff == differenceInSeconds(target, DateValue(clock))
    IN IF diff <= 0 THEN NoTimeLeft ELSE Decompose(diff)

\* races.find(race => isValid(raceDate) && raceDate > now), as an index
RECURSIVE FindNext(_, _, _)
FindNext(rs, clock, i) ==
    IF i > Len(rs) THEN 0
    ELSE IF isValid(RaceDate(rs[i])) /\ JsGreater(RaceDate(rs[i]), DateValue(clock))
         THEN i
         ELSE FindNext(rs, clock, i + 1)

\* the record of a race that names its main race only
RaceOnly(m) ==
    [FirstPractice |-> NoSession, SecondPractice |-> NoSession,
     ThirdPractice |-> NoSession, SprintQualifying |-> NoSession,
     Sprint |-> NoSession, Qualifying |-> NoSession, Race |-> m]

\* the schedules handed to the countdown
Schedules ==
    UNION {[1..n -> {RaceOnly(m) : m \in MainSessions}] : n \in 1..MaxRaces}

\* the wall clock of the countdown: around each instant a race can have,
\* and 1 d 1 h 1 min 1 s before it
CountdownClock ==
    {t - e : t \in SessionInstants, e \in {90061000, 1000, 999, 0, 0 - 1}}
CountdownStart == CHOOSE t \in CountdownClock : \A u \in CountdownClock : t <= u

\* what one run of calculateTimeLeft read and returned
Calculated(target) ==
    [Idle EXCEPT !.op = "calculateTimeLeft", !.file = "HeroCountdown",
                 !.endDate = target, !.now = now]

\* the component mounts: both memos, then the effect (a first
\* calculateTimeLeft and the interval) when there is a target
Mount ==
    /\ ~mounted
    /\ mounted' = TRUE
    /\ nextRace' = FindNext(races, now, 1)
    /\ raceDate' = IF nextRace' = 0 THEN null ELSE RaceDate(races[nextRace'])
    /\ IF raceDate' = null
       THEN /\ timeLeft' = NoTimeLeft
            /\ timers' = timers
            /\ out' = Idle
       ELSE /\ timeLeft' = calculateTimeLeft(raceDate', now)
            /\ timers' = timers + 1
            /\ out' = Calculated(raceDate')
    /\ UNCHANGED <<detailsVars, race, isPast, now, races>>

\* the interval fires: calculateTimeLeft
TimerTick ==
    /\ timers > 0
    /\ timeLeft' = calculateTimeLeft(raceDate, now)
    /\ out' = Calculated(raceDate)
    /\ UNCHANGED <<detailsVars, race, isPast, now, races, mounted, nextRace, raceDate, timers>>

\* variant: the effect returns no cleanup, the interval outlives the component
Unmount_KeepsInterval ==
    /\ mounted
    /\ mounted' = FALSE
    /\ timers' = timers
    /\ nextRace' = 0
    /\ raceDate' = null
    /\ timeLeft' = NoTimeLeft
    /\ out' = Idle
    /\ UNCHANGED <<detailsVars, race, isPast, now, races>>

\* the component unmounts: the effect's cleanup clears its interval
Unmount ==
    /\ mounted
    /\ mounted' = FALSE
    /\ timers' = IF raceDate = null THEN timers ELSE timers - 1
    /\ nextRace' = 0
    /\ raceDate' = null
    /\ timeLeft' = NoTimeLeft
    /\ out' = Idle
    /\ UNCHANGED <<detailsVars, race, isPast, now, races>>

\* the main race of a schedule that changes: a day at noon, or malformed
TimerSessions == {BadDateSession} \cup {TimedSession(d) : d \in 0..MaxDay}

\* The races prop changes while the component is mounted (the schedule is
\* fetched again and one race comes back with another date): both memos
\* are recomputed; when the next race is a new object the effect's cleanup
\* clears the old interval and the effect runs again for the new target.
ChangeRaces ==
    /\ mounted
    /\ \E i \in 1..Len(races), m \in TimerSessions :
         races' = [races EXCEPT ![i] = RaceOnly(m)]
    /\ nextRace' = FindNext(races', now, 1)
    /\ raceDate' = IF nextRace' = 0 THEN null ELSE RaceDate(races'[nextRace'])
    /\ timers' = (IF raceDate = null THEN timers ELSE timers - 1)
                   + (IF raceDate' = null THEN 0 ELSE 1)
    /\ IF raceDate' = null
       THEN UNCHANGED <<timeLeft, out>>
       ELSE /\ timeLeft' = calculateTimeLeft(raceDate', now)
            /\ out' = Calculated(raceDate')
    /\ UNCHANGED <<detailsVars, race, isPast, now, mounted>>

\* time passes
Elapse ==
    /\ \E t \in CountdownClock : t > now /\ now' = t
    /\ UNCHANGED <<detailsVars, race, isPast, out, countdownVars>>

\* the record shown while only the countdown is modelled
NoRace == RaceOnly(BadDateSession)

InitCountdown ==
    /\ race = NoRace
    /\ isPast = FALSE
    /\ now = CountdownStart
    /\ out = Idle
    /\ races \in Schedules
    /\ mounted = FALSE
    /\ nextRace = 0
    /\ raceDate = null
    /\ timeLeft = NoTimeLeft
    /\ timers = 0
    /\ DetailsOff

NextCountdown == Mount \/ TimerTick \/ Unmount \/ Elapse

SpecCountdown == InitCountdown /\ [][NextCountdown]_vars

----------------------------------------------------------------------------
(* The countdown claims, checked under SpecCountdown                       *)

TimeLeftCalculated == out.op = "calculateTimeLeft"

\* C9: calculateTimeLeft leaves no remaining time (all four fields zero)
\* whenever the target instant is at or before the current instant, and in
\* every reachable state none of days, hours, minutes, seconds is negative.
C9_NoTimeLeftFromTargetOn ==
    /\ (TimeLeftCalculated /\ out.endDate.t <= out.now) => timeLeft = NoTimeLeft
    /\ timeLeft.days >= 0
    /\ timeLeft.hours >= 0
    /\ timeLeft.minutes >= 0
    /\ timeLeft.seconds >= 0

\* the interval fires after the target has passed
C9_Witness ==
    /\ mounted /\ TimeLeftCalculated
    /\ out.endDate.t < out.now
    /\ timeLeft = NoTimeLeft

\* (((days * 24 + hours) * 60 + minutes) * 60 + seconds)
Recombined(tl) == ((tl.days * 24 + tl.hours) * 60 + tl.minutes) * 60 + tl.seconds

\* C10: when the target is after now, days, hours, minutes and seconds
\* recombine to exactly the whole seconds between now and the target;
\* 90061 seconds give 1, 1, 1, 1.
C10_RecombinesToWholeSeconds ==
    (TimeLeftCalculated /\ out.endDate.t > out.now) =>
        /\ Recombined(timeLeft) * MsPerSecond <= out.endDate.t - out.now
        /\ out.endDate.t - out.now < (Recombined(timeLeft) + 1) * MsPerSecond
        /\ (Recombined(timeLeft) = 90061 =>
               timeLeft = [days |-> 1, hours |-> 1, minutes |-> 1, seconds |-> 1])

\* the target is 90061 seconds away
C10_Witness ==
    /\ mounted /\ TimeLeftCalculated
    /\ out.endDate.t - out.now = 90061 * MsPerSecond
    /\ timeLeft = [days |-> 1, hours |-> 1, minutes |-> 1, seconds |-> 1]

----------------------------------------------------------------------------
(* The live check of one session, checked under SpecSession                *)

\* a malformed date with a time
BadDateTimedSession == [BadDateSession EXCEPT !.timeGiven = TRUE, !.sec = Noon]

\* the props an EventItem is rendered with
EventProps ==
    {BadDateSession, BadDateTimedSession}
        \cup {TimedSession(d) : d \in 0..MaxDay}
        \cup {UntimedSession(d) : d \in 0..MaxDay}

\* the instants a session with a time starts at
TimedInstants == {(d * SecondsPerDay + Noon) * MsPerSecond : d \in 0..MaxDay}

\* the viewer's clocks change one hour after a session starts, or never
TimeZones ==
    {UTC} \cup {ClockChange(s, t + HourMs) : s \in {HourMs, 0 - HourMs}, t \in TimedInstants}

\* the wall clock around the start of a session and one, two and three
\* hours after it
SessionClock ==
    {t + e : t \in TimedInstants,
             e \in {0 - 1, 0, HourMs, HourMs + 1, 2 * HourMs, 2 * HourMs + 1,
                    3 * HourMs, 3 * HourMs + 1}}
SessionClockStart == CHOOSE t \in SessionClock : \A u \in SessionClock : t <= u

\* time passes
Pass ==
    /\ \E t \in SessionClock : t > now /\ now' = t
    /\ UNCHANGED <<race, isPast, out, countdownVars, detailsVars>>

\* an EventItem of the schedule tab is rendered
EventItem_isCurrentEvent ==
    /\ out' = [Idle EXCEPT !.op = "isCurrentEvent", !.file = "Details", !.now = now,
                           !.status = IF isCurrentEvent(zone, event, now)
                                      THEN "live" ELSE "notLive"]
    /\ UNCHANGED <<race, isPast, now, countdownVars, detailsVars>>

InitSession ==
    /\ race = NoRace
    /\ isPast = FALSE
    /\ now = SessionClockStart
    /\ out = Idle
    /\ CountdownOff
    /\ zone \in TimeZones
    /\ event \in EventProps
    /\ country = ""
    /\ PageOff
    /\ DialogClosed

NextSession == Pass \/ EventItem_isCurrentEvent

SpecSession == InitSession /\ [][NextSession]_vars

LiveChecked == out.op = "isCurrentEvent"
\* the session has a date and a time that parse
EventParses == event.present /\ event.timeGiven /\ event.dateOk
EventStart == parseISO(event, event.sec).t

\* C11: a session with a date and a time that parse is live exactly when
\* sessionStart <= now <= sessionStart + 2 hours; this depends on the
\* start of that session and on now only.
C11_LiveForTwoHours ==
    (LiveChecked /\ EventParses) =>
        (out.status = "live" <=>
            (EventStart <= out.now /\ out.now <= EventStart + EventHours * HourMs))

\* C11 holds for a viewer whose clocks do not change during the session
C11_WithoutClockChange ==
    (LiveChecked /\ EventParses /\ zone = UTC) =>
        (out.status = "live" <=>
            (EventStart <= out.now /\ out.now <= EventStart + EventHours * HourMs))

\* a session shown as live three hours after its start
C11_LiveAfterThreeHours ==
    /\ LiveChecked /\ EventParses
    /\ out.now = EventStart + 3 * HourMs
    /\ out.status = "live"

----------------------------------------------------------------------------
(* The countdown's timer, checked under SpecTimer: the countdown under a   *)
(* schedule that changes                                                   *)

\* the schedules that change
TimerSchedules ==
    UNION {[1..n -> {RaceOnly(m) : m \in TimerSessions}] : n \in 1..MaxRaces}

\* the wall clock: one second before each instant a race can have, and
\* just after it
TimerClock ==
    {(d * SecondsPerDay + Noon) * MsPerSecond - e :
        d \in 0..MaxDay, e \in {MsPerSecond, 0 - 1}}
TimerStart == CHOOSE t \in TimerClock : \A u \in TimerClock : t <= u

\* time passes
Wait ==
    /\ \E t \in TimerClock : t > now /\ now' = t
    /\ UNCHANGED <<detailsVars, race, isPast, out, countdownVars>>

InitTimer ==
    /\ race = NoRace
    /\ isPast = FALSE
    /\ now = TimerStart
    /\ out = Idle
    /\ races \in TimerSchedules
    /\ mounted = FALSE
    /\ nextRace = 0
    /\ raceDate = null
    /\ timeLeft = NoTimeLeft
    /\ timers = 0
    /\ DetailsOff

NextTimer == Mount \/ TimerTick \/ Unmount \/ ChangeRaces \/ Wait

SpecTimer == InitTimer /\ [][NextTimer]_vars

\* C12: the one-second timer is cancelled when the countdown is torn down
\* and when its target changes: a mounted countdown with a target has
\* exactly one timer, one without a target has none, and after the
\* teardown no timer is left, so that no tick callback can run.
C12_TimerCancelled ==
    /\ timers = (IF mounted /\ raceDate # null THEN 1 ELSE 0)
    /\ ~mounted => ~ENABLED TimerTick

\* the schedule changed under a running countdown and left it no target:
\* the timer of the old target is gone
C12_Witness ==
    /\ mounted /\ raceDate = null /\ TimeLeftCalculated
    /\ timers = 0

----------------------------------------------------------------------------
(* The details dialog and its results request, checked under SpecDialog    *)

\* the dialog opens at most MaxOpenings times
MaxOpenings == 2

\* setError("Nepodařilo se načíst výsledky závodu")
FetchFailedMessage == [kind |-> "string", text |-> "Nepodarilo se nacist vysledky zavodu"]
\* the response of fetchRaceResults(race.season, race.round)
ResultsOf(r) == [kind |-> "results", race |-> r]

\* the races of the calendar a details dialog is opened for
DialogRaces == {RaceOnly(m) : m \in TimerSessions}

\* the wall clock: at each instant a race can have and just after it
DialogClock ==
    {(d * SecondsPerDay + Noon) * MsPerSecond + e : d \in 0..MaxDay, e \in {0, 1}}
DialogStart == CHOOSE t \in DialogClock : \A u \in DialogClock : t <= u

\* what the dialog did last
DialogDid(what) == [Idle EXCEPT !.op = what, !.file = "Details", !.now = now]

\* variant: the request goes out for every race that has a window
OpenDetails_AnyWindow ==
    /\ ~isOpen
    /\ requests < MaxOpenings
    /\ \E r \in DialogRaces :
         /\ race' = r
         /\ isOpen' = TRUE
         /\ IF Falsy(getEventDateRange_Details(r).endDate)
            THEN /\ out' = DialogDid("open")
                 /\ UNCHANGED <<loading, pending, requests>>
            ELSE /\ loading' = TRUE
                 /\ requests' = requests + 1
                 /\ pending' = pending \cup {[id |-> requests', race |-> r]}
                 /\ out' = DialogDid("fetchRaceResults")
    /\ UNCHANGED <<isPast, now, countdownVars, zone, event, country, pageVars, raceResults, error, items>>

\* handleRaceClick(race) of the calendar page, then the effect of the
\* dialog ([isOpen, race]): getRaceResults
OpenDetails ==
    /\ ~isOpen
    /\ requests < MaxOpenings
    /\ \E r \in DialogRaces :
         /\ race' = r
         /\ isOpen' = TRUE
         /\ LET endDate == getEventDateRange_Details(r).endDate
            IN IF ~Falsy(endDate) /\ JsLess(endDate, DateValue(now))
               THEN /\ loading' = TRUE
                    /\ requests' = requests + 1
                    /\ pending' = pending \cup {[id |-> requests', race |-> r]}
                    /\ out' = DialogDid("fetchRaceResults")
               ELSE /\ out' = DialogDid("open")
                    /\ UNCHANGED <<loading, pending, requests>>
    /\ UNCHANGED <<isPast, now, countdownVars, zone, event, country, pageVars, raceResults, error, items>>

\* onClose: setDetailsOpen(false); the effect runs and does nothing
CloseDetails ==
    /\ isOpen
    /\ isOpen' = FALSE
    /\ out' = DialogDid("close")
    /\ UNCHANGED <<race, isPast, now, countdownVars, zone, event, country, pageVars,
                   raceResults, loading, error, pending, requests, items>>

\* await fetchRaceResults(...) is fulfilled
ResultsArrive ==
    /\ \E q \in pending :
         /\ pending' = pending \ {q}
         /\ raceResults' = ResultsOf(q.race)
    /\ loading' = FALSE
    /\ out' = DialogDid("fulfilled")
    /\ UNCHANGED <<race, isPast, now, countdownVars, zone, event, country, pageVars,
                   isOpen, error, requests, items>>

\* variant: no catch around the await, the rejection leaves the state alone
ResultsFail_Uncaught ==
    /\ \E q \in pending : pending' = pending \ {q}
    /\ out' = DialogDid("rejected")
    /\ UNCHANGED <<race, isPast, now, countdownVars, zone, event, country, pageVars,
                   isOpen, raceResults, loading, error, requests, items>>

\* await fetchRaceResults(...) is rejected: the catch block
ResultsFail ==
    /\ \E q \in pending : pending' = pending \ {q}
    /\ error' = FetchFailedMessage
    /\ loading' = FALSE
    /\ out' = DialogDid("rejected")
    /\ UNCHANGED <<race, isPast, now, countdownVars, zone, event, country, pageVars,
                   isOpen, raceResults, requests, items>>

\* time passes
ClockMoves ==
    /\ \E t \in DialogClock : t > now /\ now' = t
    /\ UNCHANGED <<race, isPast, out, countdownVars, detailsVars>>

InitDialog ==
    /\ race = null
    /\ isPast = FALSE
    /\ now = DialogStart
    /\ out = Idle
    /\ CountdownOff
    /\ DetailsOff

NextDialog == OpenDetails \/ CloseDetails \/ ResultsArrive \/ ResultsFail \/ ClockMoves

SpecDialog == InitDialog /\ [][NextDialog]_vars

\* the dialog classifies the race it shows as past
ClassifiedPast(r, clock) ==
    LET w == getEventDateRange_Details(r)
    IN getRaceStatus_Details(w.startDate, w.endDate, clock) = "past"

\* C13: a results request is issued only when the race is classified past
\* at the instant the dialog is opened: never for a race whose window is
\* undefined, never for one whose window end is not before that instant.
C13_RequestOnlyWhenPast ==
    [][requests' # requests =>
          /\ ClassifiedPast(race', now)
          /\ ~Falsy(getEventDateRange_Details(race').endDate)
          /\ getEventDateRange_Details(race').endDate.t < now]_vars

\* a request is out for the race shown, whose window ended a millisecond ago
C13_Witness ==
    /\ isOpen /\ loading
    /\ \E q \in pending : q.race = race
    /\ getEventDateRange_Details(race).endDate.t = now - 1

\* the dialog is open at the very end of the window and no request went out
C13_WitnessAtEnd ==
    /\ isOpen /\ out.op = "open" /\ requests = 0
    /\ isValid(getEventDateRange_Details(race).endDate)
    /\ getEventDateRange_Details(race).endDate.t = out.now

\* C14: when the results request fails the dialog is in the error state
\* with loading false, the failure goes no further than the catch block,
\* and the failure issues no second request.
C14_FailureIsErrorState ==
    [][(out'.op = "rejected") =>
          /\ error' = FetchFailedMessage
          /\ loading' = FALSE
          /\ requests' = requests]_vars

\* the only request of this opening has failed
C14_Witness ==
    /\ isOpen /\ out.op = "rejected" /\ pending = {} /\ requests = 1
    /\ error = FetchFailedMessage /\ ~loading

----------------------------------------------------------------------------
(* Every window, classification and live-check path, checked under         *)
(* SpecPaths                                                               *)

\* What isWithinInterval(date, {start, end}) does with any interval.  For
\* an interval whose ends are not two valid dates in order the outcome
\* depends on the date-fns release installed: releases 1 and 2 throw
\* RangeError (Invalid interval), later releases order the two time values
\* and compare, which gives false as soon as one is NaN.
isWithinInterval_Outcomes(date, start, end) ==
    IF isValid(start) /\ isValid(end) /\ start.t <= end.t
    THEN {IF isWithinInterval(date, start, end) THEN "true" ELSE "false"}
    ELSE {"RangeError",
          IF isValid(start) /\ isValid(end) /\ isWithinInterval(date, end, start)
          THEN "true" ELSE "false"}

\* pages/Index.tsx isRacePast
isRacePast(r, clock) ==
    LET endDate == getEventDateRange_Index(r).endDate
    IN IF Falsy(endDate) THEN FALSE ELSE JsLess(endDate, DateValue(clock))

\* pages/Index.tsx isRaceCurrent: the outcomes it can have
isRaceCurrent(r, clock) ==
    LET w == getEventDateRange_Index(r)
    IN IF Falsy(w.startDate) \/ Falsy(w.endDate) THEN {"false"}
       ELSE isWithinInterval_Outcomes(DateValue(clock), w.startDate, w.endDate)

\* schedule.filter(isRacePast) reaches the race
Index_isRacePast ==
    /\ LET w == getEventDateRange_Index(race)
       IN out' = [op |-> "isRacePast", file |-> "Index",
                  startDate |-> w.startDate, endDate |-> w.endDate,
                  now |-> now, isPast |-> FALSE,
                  status |-> IF isRacePast(race, now) THEN "true" ELSE "false"]
    /\ UNCHANGED <<race, isPast, now, countdownVars, detailsVars>>

\* schedule.filter(isRaceCurrent) reaches the race
Index_isRaceCurrent ==
    /\ LET w == getEventDateRange_Index(race)
       IN \E o \in isRaceCurrent(race, now) :
            out' = [op |-> "isRaceCurrent", file |-> "Index",
                    startDate |-> w.startDate, endDate |-> w.endDate,
                    now |-> now, isPast |-> FALSE, status |-> o]
    /\ UNCHANGED <<race, isPast, now, countdownVars, detailsVars>>

\* the records taken through every path: first practice and the race vary
PathRaces ==
    {r \in [FirstPractice : Sessions, SecondPractice : {NoSession},
            ThirdPractice : {NoSession}, SprintQualifying : {NoSession},
            Sprint : {NoSession}, Qualifying : {NoSession}, Race : MainSessions] : TRUE}

\* the sessions these records give an EventItem to
ShownSessions == {"FirstPractice", "Race"}

\* the schedule tab renders the EventItem of a session of the race
Schedule_isCurrentEvent ==
    /\ \E x \in ShownSessions :
         /\ race[x].present
         /\ event' = race[x]
    /\ out' = [Idle EXCEPT !.op = "isCurrentEvent", !.file = "Details", !.now = now,
                           !.status = IF isCurrentEvent(zone, event', now)
                                      THEN "live" ELSE "notLive"]
    /\ UNCHANGED <<race, isPast, now, countdownVars, zone, country, pageVars, dialogVars>>

InitPaths ==
    /\ race \in PathRaces
    /\ isPast \in BOOLEAN
    /\ now = ClockStart
    /\ out = Idle
    /\ CountdownOff
    /\ DetailsOff

NextPaths ==
    \/ Tick
    \/ Window_Details \/ Window_Card \/ Window_EmojiCard \/ Window_Index
    \/ Render_Card \/ Render_EmojiCard \/ Render_Details
    \/ Index_isRacePast \/ Index_isRaceCurrent
    \/ Schedule_isCurrentEvent

SpecPaths == InitPaths /\ [][NextPaths]_vars

Raised == out.status \in {"RangeError", "TypeError"}

C15_OutsideIsRaceCurrent == out.op # "isRaceCurrent" => ~Raised

\* isRaceCurrent raises only for a window that is not two valid dates
C15_RaisesOnInvalidWindowOnly ==
    Raised => (out.op = "isRaceCurrent" /\ ~isValid(out.startDate) /\ ~isValid(out.endDate))

----------------------------------------------------------------------------
(* The ranges of the countdown's fields, checked under SpecCountdown       *)

\* the whole seconds calculateTimeLeft found between now and the target
SecondsLeft == differenceInSeconds(out.endDate, DateValue(out.now))

\* C16: for every positive whole-second difference the countdown shows
\* hours in 0..23, minutes in 0..59 and seconds in 0..59, and days is the
\* number of whole days in the difference.
C16_FieldsInRange ==
    (TimeLeftCalculated /\ SecondsLeft > 0) =>
        /\ timeLeft.hours \in 0..23
        /\ timeLeft.minutes \in 0..59
        /\ timeLeft.seconds \in 0..59
        /\ timeLeft.days * SecondsPerDay <= SecondsLeft
        /\ SecondsLeft < (timeLeft.days + 1) * SecondsPerDay

\* one second short of a day: every field at the top of its range
C16_Witness ==
    /\ mounted /\ TimeLeftCalculated
    /\ SecondsLeft = SecondsPerDay - 1
    /\ timeLeft = [days |-> 0, hours |-> 23, minutes |-> 59, seconds |-> 59]

----------------------------------------------------------------------------
(* Sessions without a time, checked under SpecUntimed                      *)

\* a session: absent, malformed, a day at noon, or a day without a time
UntimedSessions == Sessions \cup {UntimedSession(d) : d \in 0..MaxDay}

\* the records evaluated: first practice, qualifying and the race vary
UntimedRaces ==
    {r \in [FirstPractice : UntimedSessions, SecondPractice : {NoSession},
            ThirdPractice : {NoSession}, SprintQualifying : {NoSession},
            Sprint : {NoSession}, Qualifying : UntimedSessions,
            Race : MainSessions] : TRUE}

InitUntimed ==
    /\ race \in UntimedRaces
    /\ isPast = FALSE
    /\ now = 0
    /\ out = Idle
    /\ CountdownOff
    /\ DetailsOff

SpecUntimed == InitUntimed /\ [][NextWindow]_vars

\* the session with the time "00:00:00Z" written out where it has none
AtMidnight(s) ==
    IF s.present /\ ~s.timeGiven THEN [s EXCEPT !.timeGiven = TRUE, !.sec = 0] ELSE s
\* the record with every missing time written out as "00:00:00Z"
AllAtMidnight(r) ==
    [x \in OptionalSessions \cup {"Race"} |-> AtMidnight(r[x])]

\* midnight UTC of the date of a session that has a date and no time
UntimedMidnights(r) ==
    {r[x].day * SecondsPerDay * MsPerSecond :
        x \in {y \in OptionalSessions \cup {"Race"} :
                  r[y].present /\ r[y].dateOk /\ ~r[y].timeGiven}}

\* C18: a present session with a date and no time contributes midnight
\* UTC of its date to the window, exactly as if its time were 00:00:00Z:
\* the window is the window of the record with that time written out, and
\* it contains that midnight.
C18_MissingTimeIsMidnight ==
    (WindowEvaluated /\ out.file \in SeparateFiles) =>
        /\ out.startDate = getEventDateRange(out.file, AllAtMidnight(race)).startDate
        /\ out.endDate = getEventDateRange(out.file, AllAtMidnight(race)).endDate
        /\ \A t \in UntimedMidnights(race) :
              /\ isValid(out.startDate) /\ isValid(out.endDate)
              /\ out.startDate.t <= t /\ t <= out.endDate.t

\* the window of the details dialog starts at the midnight of a first
\* practice without a time, before the race at noon of the same day
C18_Witness ==
    /\ WindowEvaluated /\ out.file = "Details"
    /\ race.FirstPractice = UntimedSession(race.Race.day)
    /\ race.Race = TimedSession(race.Race.day)
    /\ out.startDate = DateValue(race.Race.day * SecondsPerDay * MsPerSecond)
    /\ out.endDate = DateValue((race.Race.day * SecondsPerDay + Noon) * MsPerSecond)

----------------------------------------------------------------------------
(* The schedule tab of the details dialog, checked under SpecSchedule      *)

\* const isSprintWeekend = !!race.Sprint
isSprintWeekend(r) == r.Sprint.present

\* {condition && <EventItem ... />}
ItemIf(condition, session) == IF condition THEN <<session>> ELSE <<>>

\* variant: second and third practice listed whenever the record has them
ScheduleItems_EveryPractice(r) ==
    ItemIf(r.FirstPractice.present, "FirstPractice")
        \o ItemIf(isSprintWeekend(r) /\ r.SprintQualifying.present, "SprintQualifying")
        \o ItemIf(isSprintWeekend(r) /\ r.Sprint.present, "Sprint")
        \o ItemIf(r.SecondPractice.present, "SecondPractice")
        \o ItemIf(r.ThirdPractice.present, "ThirdPractice")
        \o ItemIf(r.Qualifying.present, "Qualifying")
        \o <<"Race">>

\* the EventItems of the schedule tab, top to bottom, named by the field
\* of the record they show
ScheduleItems(r) ==
    ItemIf(r.FirstPractice.present, "FirstPractice")
        \o ItemIf(isSprintWeekend(r) /\ r.SprintQualifying.present, "SprintQualifying")
        \o ItemIf(isSprintWeekend(r) /\ r.Sprint.present, "Sprint")
        \o ItemIf(~isSprintWeekend(r) /\ r.SecondPractice.present, "SecondPractice")
        \o ItemIf(~isSprintWeekend(r) /\ r.ThirdPractice.present, "ThirdPractice")
        \o ItemIf(r.Qualifying.present, "Qualifying")
        \o <<"Race">>

\* the records shown: every combination of sessions present and absent
Presence == {NoSession, TimedSession(0)}
ShapeRaces ==
    [FirstPractice : Presence, SecondPractice : Presence, ThirdPractice : Presence,
     SprintQualifying : Presence, Sprint : Presence, Qualifying : Presence,
     Race : MainSessions]

\* the dialog renders its schedule tab
RenderSchedule ==
    /\ items' = ScheduleItems(race)
    /\ UNCHANGED <<race, isPast, now, out, countdownVars, zone, event, country, pageVars,
                   isOpen, raceResults, loading, error, pending, requests>>

InitSchedule ==
    /\ race \in ShapeRaces
    /\ isPast = FALSE
    /\ now = 0
    /\ out = Idle
    /\ CountdownOff
    /\ DetailsOff

NextSchedule == RenderSchedule

SpecSchedule == InitSchedule /\ [][NextSchedule]_vars

Listed == {items[i] : i \in 1..Len(items)}
SprintItems == {"SprintQualifying", "Sprint"}
PracticeItems == {"SecondPractice", "ThirdPractice"}

\* C19: the schedule of the details dialog never lists a sprint session
\* (sprint qualifying, sprint) together with second or third practice: a
\* record with a sprint shows the sprint shape only, a record without one
\* the conventional shape only.
C19_OneWeekendShape ==
    /\ ~(Listed \cap SprintItems # {} /\ Listed \cap PracticeItems # {})
    /\ (items # <<>> /\ race.Sprint.present) => Listed \cap PracticeItems = {}
    /\ (items # <<>> /\ ~race.Sprint.present) => Listed \cap SprintItems = {}

\* a record that has a sprint and a second practice: the sprint is listed,
\* the practice is not
C19_Witness ==
    /\ race.Sprint.present /\ race.SecondPractice.present
    /\ "Sprint" \in Listed /\ "SecondPractice" \notin Listed

----------------------------------------------------------------------------
(* The lookup tables, checked under SpecLookup.  Czech names are written   *)
(* without their diacritics.                                               *)

\* the race card with flag emojis: countryTranslations
countryTranslations_EmojiCard ==
       "Italy" :> "Italie" @@ "Monaco" :> "Monako" @@ "Spain" :> "Spanelsko"
     @@ "UK" :> "Velka Britanie" @@ "United Kingdom" :> "Velka Britanie"
     @@ "USA" :> "USA" @@ "United States" :> "Spojene staty americke"
     @@ "Austria" :> "Rakousko" @@ "Belgium" :> "Belgie"
     @@ "Netherlands" :> "Nizozemsko" @@ "Hungary" :> "Madarsko"
     @@ "Azerbaijan" :> "Azerbajdzan" @@ "Canada" :> "Kanada"
     @@ "France" :> "Francie" @@ "Germany" :> "Nemecko"
     @@ "Japan" :> "Japonsko" @@ "Mexico" :> "Mexiko"
     @@ "Brazil" :> "Brazilie" @@ "Australia" :> "Australie"
     @@ "Bahrain" :> "Bahrajn" @@ "Saudi Arabia" :> "Saudska Arabie"
     @@ "China" :> "Cina" @@ "Singapore" :> "Singapur" @@ "Qatar" :> "Katar"
     @@ "UAE" :> "SAE"
     @@ "United Arab Emirates" :> "Spojene arabske emiraty"

\* the race card with flag emojis: countryFlags (a flag emoji is written
\* "flag" and its two letters)
countryFlags_EmojiCard ==
       "Italy" :> "flag IT" @@ "Monaco" :> "flag MC" @@ "Spain" :> "flag ES"
     @@ "UK" :> "flag GB" @@ "United Kingdom" :> "flag GB"
     @@ "USA" :> "flag US" @@ "United States" :> "flag US"
     @@ "Austria" :> "flag AT" @@ "Belgium" :> "flag BE"
     @@ "Netherlands" :> "flag NL" @@ "Hungary" :> "flag HU"
     @@ "Azerbaijan" :> "flag AZ" @@ "Canada" :> "flag CA"
     @@ "France" :> "flag FR" @@ "Germany" :> "flag DE"
     @@ "Japan" :> "flag JP" @@ "Mexico" :> "flag MX"
     @@ "Brazil" :> "flag BR" @@ "Australia" :> "flag AU"
     @@ "Bahrain" :> "flag BH" @@ "Saudi Arabia" :> "flag SA"
     @@ "China" :> "flag CN" @@ "Singapore" :> "flag SG"
     @@ "Qatar" :> "flag QA" @@ "UAE" :> "flag AE"
     @@ "United Arab Emirates" :> "flag AE"

\* countryFlags of the details dialog, of the race card with status icons
\* and of the countdown: three copies of one table
countryFlags ==
       "Italy" :> "IT" @@ "Monaco" :> "MC" @@ "Spain" :> "ES"
     @@ "UK" :> "GB" @@ "United Kingdom" :> "GB" @@ "USA" :> "US"
     @@ "United States" :> "US" @@ "Austria" :> "AT" @@ "Belgium" :> "BE"
     @@ "Netherlands" :> "NL" @@ "Hungary" :> "HU" @@ "Azerbaijan" :> "AZ"
     @@ "Canada" :> "CA" @@ "France" :> "FR" @@ "Germany" :> "DE"
     @@ "Japan" :> "JP" @@ "Mexico" :> "MX" @@ "Brazil" :> "BR"
     @@ "Australia" :> "AU" @@ "Bahrain" :> "BH" @@ "Saudi Arabia" :> "SA"
     @@ "China" :> "CN" @@ "Singapore" :> "SG" @@ "Qatar" :> "QA"
     @@ "UAE" :> "AE" @@ "United Arab Emirates" :> "AE"

\* the race card with status icons: countryTranslations
countryTranslations_Card ==
       "Italy" :> "Italie" @@ "Monaco" :> "Monako" @@ "Spain" :> "Spanelsko"
     @@ "UK" :> "Velka Britanie" @@ "United Kingdom" :> "Velka Britanie"
     @@ "USA" :> "USA" @@ "United States" :> "USA"
     @@ "Austria" :> "Rakousko" @@ "Belgium" :> "Belgie"
     @@ "Netherlands" :> "Nizozemsko" @@ "Hungary" :> "Madarsko"
     @@ "Azerbaijan" :> "Azerbajdzan" @@ "Canada" :> "Kanada"
     @@ "France" :> "Francie" @@ "Germany" :> "Nemecko"
     @@ "Japan" :> "Japonsko" @@ "Mexico" :> "Mexiko"
     @@ "Brazil" :> "Brazilie" @@ "Australia" :> "Australie"
     @@ "Bahrain" :> "Bahrajn" @@ "Saudi Arabia" :> "Saudska Arabie"
     @@ "China" :> "Cina" @@ "Singapore" :> "Singapur" @@ "Qatar" :> "Katar"
     @@ "UAE" :> "SAE" @@ "United Arab Emirates" :> "SAE"

\* the driver standings: nationalityFlags
nationalityFlags_Driver ==
       "British" :> "GB" @@ "Dutch" :> "NL" @@ "Spanish" :> "ES"
     @@ "Monegasque" :> "MC" @@ "Mexican" :> "MX" @@ "Australian" :> "AU"
     @@ "German" :> "DE" @@ "French" :> "FR" @@ "Finnish" :> "FI"
     @@ "Canadian" :> "CA" @@ "Japanese" :> "JP" @@ "Chinese" :> "CN"
     @@ "Thai" :> "TH" @@ "American" :> "US" @@ "Danish" :> "DK"
     @@ "Italian" :> "IT" @@ "Brazilian" :> "BR" @@ "Belgian" :> "BE"
     @@ "Swiss" :> "CH" @@ "Austrian" :> "AT" @@ "Russian" :> "RU"
     @@ "Polish" :> "PL" @@ "New Zealander" :> "NZ" @@ "Argentine" :> "AR"

\* the constructor standings: nationalityFlags
nationalityFlags_Constructor ==
       "British" :> "GB" @@ "Italian" :> "IT" @@ "German" :> "DE"
     @@ "French" :> "FR" @@ "Austrian" :> "AT" @@ "Swiss" :> "CH"
     @@ "American" :> "US" @@ "Japanese" :> "JP"

\* what every object literal inherits from Object.prototype
ObjectPrototype ==
    "constructor" :> "function Object" @@ "toString" :> "function toString"

\* table[key] when the table has no such key of its own and inherits none
NoValue == "undefined"

\* table[key]
Get(table, key) ==
    IF key \in DOMAIN table THEN table[key]
    ELSE IF key \in DOMAIN ObjectPrototype THEN ObjectPrototype[key]
    ELSE NoValue

\* value || fallback
OrElse(value, fallback) == IF value \in {NoValue, ""} THEN fallback ELSE value

\* variant: an unknown country is shown as the marker "UN"
getCountryNameInCzech_Marker(englishCountryName) ==
    OrElse(Get(countryTranslations_EmojiCard, englishCountryName), "UN")

\* countryTranslations[englishCountryName] || englishCountryName
getCountryNameInCzech(englishCountryName) ==
    OrElse(Get(countryTranslations_EmojiCard, englishCountryName), englishCountryName)

\* countryFlags[englishCountryName] || (the chequered flag emoji)
getCountryFlagEmoji(englishCountryName) ==
    OrElse(Get(countryFlags_EmojiCard, englishCountryName), "chequered flag")

\* countryFlags[race.Circuit.Location.country] || "UN"
countryCode(key) == OrElse(Get(countryFlags, key), "UN")

\* countryTranslations[race.Circuit.Location.country] || race.Circuit.Location.country
localizedCountry(key) == OrElse(Get(countryTranslations_Card, key), key)

\* nationalityFlags[standing.Driver.nationality] || "UN"
flagCode_Driver(key) == OrElse(Get(nationalityFlags_Driver, key), "UN")

\* nationalityFlags[standing.Constructor.nationality] || "UN"
flagCode_Constructor(key) == OrElse(Get(nationalityFlags_Constructor, key), "UN")

TranslationLookups == {"getCountryNameInCzech", "localizedCountry"}
FlagLookups ==
    {"getCountryFlagEmoji", "countryCode", "flagCode_Driver", "flagCode_Constructor"}
Lookups == TranslationLookups \cup FlagLookups

TableOf(lookup) ==
    CASE lookup = "getCountryNameInCzech" -> countryTranslations_EmojiCard
      [] lookup = "localizedCountry" -> countryTranslations_Card
      [] lookup = "getCountryFlagEmoji" -> countryFlags_EmojiCard
      [] lookup = "countryCode" -> countryFlags
      [] lookup = "flagCode_Driver" -> nationalityFlags_Driver
      [] lookup = "flagCode_Constructor" -> nationalityFlags_Constructor

LookUp(lookup, key) ==
    CASE lookup = "getCountryNameInCzech" -> getCountryNameInCzech(key)
      [] lookup = "localizedCountry" -> localizedCountry(key)
      [] lookup = "getCountryFlagEmoji" -> getCountryFlagEmoji(key)
      [] lookup = "countryCode" -> countryCode(key)
      [] lookup = "flagCode_Driver" -> flagCode_Driver(key)
      [] lookup = "flagCode_Constructor" -> flagCode_Constructor(key)

\* keys no table has
UnknownKey == "Atlantis"
UnknownKeys == {UnknownKey, "Czechia", "Czech", ""} \cup DOMAIN ObjectPrototype

\* the keys looked up: every key of every table, and keys no table has
Keys == UNION {DOMAIN TableOf(l) : l \in Lookups} \cup UnknownKeys

\* a component renders and looks its key up
Render_Lookup ==
    /\ \E l \in Lookups :
         out' = [Idle EXCEPT !.op = "lookup", !.file = l, !.status = LookUp(l, country)]
    /\ UNCHANGED <<race, isPast, now, countdownVars, detailsVars>>

InitLookup ==
    /\ race = NoRace
    /\ isPast = FALSE
    /\ now = 0
    /\ out = Idle
    /\ CountdownOff
    /\ zone = UTC
    /\ event = NoSession
    /\ country \in Keys
    /\ PageOff
    /\ DialogClosed

NextLookup == Render_Lookup

SpecLookup == InitLookup /\ [][NextLookup]_vars

LookedUp == out.op = "lookup"
KnownKey == country \in DOMAIN TableOf(out.file)

FlagDefault(lookup) == IF lookup = "getCountryFlagEmoji" THEN "chequered flag" ELSE "UN"

C20_WitnessFlag ==
    /\ LookedUp /\ out.file = "countryCode"
    /\ country = "Czechia" /\ ~KnownKey
    /\ out.status = "UN"

----------------------------------------------------------------------------
(* The three lists of the calendar page, checked under SpecPage            *)

\* isRaceCurrent(race) in a build whose isWithinInterval throws on an
\* invalid interval (throws) or returns false for it
isRaceCurrentIn(throws, r, clock) ==
    IF "RangeError" \in isRaceCurrent(r, clock)
    THEN IF throws THEN "RangeError"
         ELSE CHOOSE o \in isRaceCurrent(r, clock) : o # "RangeError"
    ELSE CHOOSE o \in isRaceCurrent(r, clock) : TRUE

\* the races of the page: a first practice (absent, malformed, or a day
\* at noon) and a race (malformed, or a day at noon)
PageRaces ==
    {r \in [FirstPractice : Sessions, SecondPractice : {NoSession},
            ThirdPractice : {NoSession}, SprintQualifying : {NoSession},
            Sprint : {NoSession}, Qualifying : {NoSession},
            Race : TimerSessions] : TRUE}

\* the wall clock of the page: at each instant a session can have, and one
\* millisecond after it
PageClock == {t + e : t \in TimedInstants, e \in {0, 1}}
PageStart == CHOOSE t \in PageClock : \A u \in PageClock : t <= u

\* the instants the clock can show from instant t on
NotBefore(t) == {u \in PageClock : t <= u}

\* time passes
PageTick ==
    /\ \E t \in PageClock : t > now /\ now' = t
    /\ UNCHANGED <<race, isPast, out, countdownVars, detailsVars>>

\* The lists a render puts the race in: schedule.filter(isRacePast) reads
\* the clock at t1, schedule.filter(isRaceCurrent) at t2, and the filter
\* of upcomingRaces at t3 (isRacePast) and, unless the race is past, at t4
\* (isRaceCurrent).
RenderRaises(throws, r, t2, t3, t4) ==
    \/ isRaceCurrentIn(throws, r, t2) = "RangeError"
    \/ ~isRacePast(r, t3) /\ isRaceCurrentIn(throws, r, t4) = "RangeError"

ListsOf(throws, r, t1, t2, t3, t4) ==
    (IF isRacePast(r, t1) THEN {"past"} ELSE {})
        \cup (IF isRaceCurrentIn(throws, r, t2) = "true" THEN {"current"} ELSE {})
        \cup (IF ~isRacePast(r, t3) /\ isRaceCurrentIn(throws, r, t4) # "true"
              THEN {"upcoming"} ELSE {})

\* The page renders; the clock may advance between the reads.
Render_Index ==
    /\ \E throws \in BOOLEAN, t1 \in NotBefore(now) :
       \E t2 \in NotBefore(t1) : \E t3 \in NotBefore(t2) : \E t4 \in NotBefore(t3) :
         /\ LET raised == RenderRaises(throws, race, t2, t3, t4)
            IN /\ lists' = IF raised THEN {} ELSE ListsOf(throws, race, t1, t2, t3, t4)
               /\ out' = [Idle EXCEPT !.op = "renderIndex", !.file = "Index", !.now = t1,
                                      !.status = IF raised THEN "RangeError"
                                                 ELSE IF t1 = t4 THEN "oneInstant"
                                                 ELSE "clockAdvanced"]
         /\ now' = t4
    /\ UNCHANGED <<race, isPast, countdownVars, zone, event, country, dialogVars,
                   pageMounted, activeTab, listeners, closures, standings, bars>>

InitPage ==
    /\ race \in PageRaces
    /\ isPast = FALSE
    /\ now = PageStart
    /\ out = Idle
    /\ CountdownOff
    /\ DetailsOff

NextPage == PageTick \/ Render_Index

SpecPage == InitPage /\ [][NextPage]_vars

PageRendered == out.op = "renderIndex"

\* C21: in every render of the calendar page the race is in exactly one of
\* pastRaces, currentRaces and upcomingRaces, also when the clock advances
\* between the reads of isRacePast and isRaceCurrent.
C21_ExactlyOneList ==
    (PageRendered /\ out.status # "RangeError") => Cardinality(lists) = 1

\* C21 holds of a render whose reads all see one instant
C21_WhenClockStands ==
    (PageRendered /\ out.status = "oneInstant") => Cardinality(lists) = 1

\* the race is in no list: its window ended between two reads
C21_InNoList == PageRendered /\ out.status = "clockAdvanced" /\ lists = {}

\* the race is in two lists
C21_InTwoLists == PageRendered /\ out.status = "clockAdvanced" /\ Cardinality(lists) = 2

----------------------------------------------------------------------------
(* The four copies of getEventDateRange compared, checked under SpecWindow *)

\* the window returned equals the window that the copy in `file` returns
SameWindowAs(file) ==
    /\ out.startDate = getEventDateRange(file, race).startDate
    /\ out.endDate = getEventDateRange(file, race).endDate

\* C22: the copies of getEventDateRange (calendar page, both race cards,
\* details dialog) return the same window for every race record, also for
\* a record without first practice, with a sprint qualifying, or with an
\* unparseable session date.
C22_SameWindowEverywhere ==
    WindowEvaluated => \A file \in Files : SameWindowAs(file)

\* C22 holds among the details dialog and both race cards
C22_OutsideIndex ==
    (WindowEvaluated /\ out.file \in SeparateFiles) =>
        \A file \in SeparateFiles : SameWindowAs(file)

\* the calendar page leaves out a sprint qualifying that starts the weekend
C22_SprintQualifyingLeftOut ==
    /\ WindowEvaluated /\ out.file = "Index"
    /\ isValid(out.startDate)
    /\ isValid(getEventDateRange_Details(race).startDate)
    /\ getEventDateRange_Details(race).startDate.t < out.startDate.t

----------------------------------------------------------------------------
(* A race in its section, on its card and in the dialog, checked under     *)
(* SpecSections                                                            *)

\* The page renders with every read of the clock at `now`, and the race
\* card of the race is rendered in the section the race is in, with the
\* isPast prop of that section (true in "Dokoncene zavody" only).
Section_Card ==
    /\ \E throws \in BOOLEAN :
         IF RenderRaises(throws, race, now, now, now)
         THEN /\ lists' = {}
              /\ isPast' = isPast
              /\ out' = [Idle EXCEPT !.op = "renderIndex", !.file = "Index",
                                     !.now = now, !.status = "RangeError"]
         ELSE /\ lists' = ListsOf(throws, race, now, now, now, now)
              /\ isPast' = ("past" \in lists')
              /\ LET w == getEventDateRange_Card(race)
                 IN out' = [op |-> "getRaceStatus", file |-> "Card",
                            startDate |-> w.startDate, endDate |-> w.endDate,
                            now |-> now, isPast |-> isPast',
                            status |-> getRaceStatus_Card(w.startDate, w.endDate,
                                                          isPast', now)]
    /\ UNCHANGED <<race, now, countdownVars, zone, event, country, dialogVars,
                   pageMounted, activeTab, listeners, closures, standings, bars>>

\* the same with the race card with flag emojis
Section_EmojiCard ==
    /\ \E throws \in BOOLEAN :
         IF RenderRaises(throws, race, now, now, now)
         THEN /\ lists' = {}
              /\ isPast' = isPast
              /\ out' = [Idle EXCEPT !.op = "renderIndex", !.file = "Index",
                                     !.now = now, !.status = "RangeError"]
         ELSE /\ lists' = ListsOf(throws, race, now, now, now, now)
              /\ isPast' = ("past" \in lists')
              /\ LET w == getEventDateRange_EmojiCard(race)
                 IN out' = [op |-> "getRaceStatus", file |-> "EmojiCard",
                            startDate |-> w.startDate, endDate |-> w.endDate,
                            now |-> now, isPast |-> isPast',
                            status |-> getRaceStatus_EmojiCard(w.startDate, w.endDate,
                                                               isPast', now)]
    /\ UNCHANGED <<race, now, countdownVars, zone, event, country, dialogVars,
                   pageMounted, activeTab, listeners, closures, standings, bars>>

\* The page renders with every read of the clock at `now`, and the dialog
\* of the race is rendered at that instant.
Section_Details ==
    /\ \E throws \in BOOLEAN :
         IF RenderRaises(throws, race, now, now, now)
         THEN /\ lists' = {}
              /\ out' = [Idle EXCEPT !.op = "renderIndex", !.file = "Index",
                                     !.now = now, !.status = "RangeError"]
         ELSE /\ lists' = ListsOf(throws, race, now, now, now, now)
              /\ LET w == getEventDateRange_Details(race)
                 IN out' = [op |-> "getRaceStatus", file |-> "Details",
                            startDate |-> w.startDate, endDate |-> w.endDate,
                            now |-> now, isPast |-> FALSE,
                            status |-> getRaceStatus_Details(w.startDate, w.endDate, now)]
    /\ UNCHANGED <<race, isPast, now, countdownVars, zone, event, country, dialogVars,
                   pageMounted, activeTab, listeners, closures, standings, bars>>

NextSections == PageTick \/ Section_Card \/ Section_EmojiCard \/ Section_Details

SpecSections == InitPage /\ [][NextSections]_vars

\* C23: for one race record and one current instant, the section of the
\* calendar that contains the race, the status on its card (given the
\* isPast prop of that section) and the status in the details dialog agree.
C23_SectionCardDialogAgree ==
    StatusEvaluated => lists = {out.status}

\* C23 holds for the records whose window on the page is the window of
\* the cards and of the dialog
C23_WhenWindowsAgree ==
    (StatusEvaluated
        /\ getEventDateRange_Index(race) = getEventDateRange_Details(race))
        => lists = {out.status}

\* a race without first practice, running: "upcoming" section, dialog "current"
C23_UpcomingSectionCurrentDialog ==
    /\ StatusEvaluated /\ out.file = "Details"
    /\ lists = {"upcoming"} /\ out.status = "current"

----------------------------------------------------------------------------
(* What the results tab shows, checked under SpecDialog                    *)

\* The results tab of the open dialog, rendered at `now`: the tab exists
\* when the status is past, and holds the loading placeholders, the error
\* box, the "no results yet" line and the result rows under the
\* conditions of the four blocks.
ResultsTab ==
    IF ~isOpen THEN {}
    ELSE IF ~ClassifiedPast(race, now) THEN {}
    ELSE (IF loading THEN {"loading"} ELSE {})
         \cup (IF error # null THEN {"error"} ELSE {})
         \cup (IF ~loading /\ error = null /\ raceResults = null
               THEN {"none"} ELSE {})
         \cup (IF ~loading /\ error = null /\ raceResults # null
               THEN {"results"} ELSE {})

\* C24: whenever the dialog shows race results or the loading indicator,
\* they belong to the selected race: the results are those of that race,
\* and while loading is shown a request for that race is under way,
\* under every interleaving of open, close, open for another race and
\* arrival of a response.
C24_ShownBelongsToRace ==
    /\ "results" \in ResultsTab => raceResults = ResultsOf(race)
    /\ "loading" \in ResultsTab => \E q \in pending : q.race = race

\* the results of another race are shown while the request for the
\* selected race is still under way
C24_StaleResultsShown ==
    /\ isOpen /\ "results" \in ResultsTab
    /\ raceResults # ResultsOf(race)
    /\ \E q \in pending : q.race = race

\* C25: after a results request for the open past race has completed
\* successfully the dialog shows those results and no error message, also
\* when an earlier request had failed.
C25_SuccessShowsResults ==
    (isOpen /\ out.op = "fulfilled" /\ raceResults = ResultsOf(race)
        /\ ClassifiedPast(race, now))
        => (error = null /\ ResultsTab = {"results"})

\* C25 holds when no request has failed before
C25_WhenNoneFailed ==
    (isOpen /\ out.op = "fulfilled" /\ raceResults = ResultsOf(race)
        /\ ClassifiedPast(race, now) /\ error = null)
        => ResultsTab = {"results"}

\* the request succeeded, and the error of an earlier failure is shown
C25_OldErrorShown ==
    /\ isOpen /\ out.op = "fulfilled" /\ raceResults = ResultsOf(race)
    /\ pending = {}
    /\ ResultsTab = {"error"}

----------------------------------------------------------------------------
(* The "tabChange" listener of the calendar page                           *)

\* the page is mounted at most this many times
MaxMounts == 6

\* the three tabs of the page
Tabs == {"calendar", "drivers", "constructors"}

\* document.addEventListener(type, f): f joins the listeners of the type,
\* once per function identity
addEventListener(ls, f) == ls \cup {f}

\* document.removeEventListener(type, f): the listener that IS f leaves
removeEventListener(ls, f) == ls \ {f}

PageDid(what, tab, fs) ==
    [op |-> what, file |-> "Index", startDate |-> null, endDate |-> null,
     now |-> now, isPast |-> FALSE, status |-> tab, invoked |-> fs]

\* The page mounts: useState("calendar"), and the effect registers a
\* newly created arrow function as listener.
MountPage ==
    /\ ~pageMounted
    /\ Cardinality(listeners) < MaxMounts
    /\ pageMounted' = TRUE
    /\ activeTab' = "calendar"
    /\ closures' = closures + 1
    /\ listeners' = addEventListener(listeners, closures + 1)
    /\ out' = PageDid("mountPage", "calendar", {})
    /\ UNCHANGED <<race, isPast, now, countdownVars, zone, event, country, dialogVars,
                   lists, standings, bars>>

\* The page unmounts: the cleanup of the effect creates another arrow
\* function and asks the document to remove that one.
UnmountPage ==
    /\ pageMounted
    /\ pageMounted' = FALSE
    /\ closures' = closures + 1
    /\ listeners' = removeEventListener(listeners, closures + 1)
    /\ out' = PageDid("unmountPage", activeTab, {})
    /\ UNCHANGED <<race, isPast, now, countdownVars, zone, event, country, dialogVars,
                   lists, activeTab, standings, bars>>

\* A "tabChange" event is dispatched on the document: every registered
\* listener runs handleTabChange(e.detail.tab); the one of the mounted
\* page sets its activeTab, those of unmounted pages set a state that is
\* gone.
DispatchTabChange ==
    /\ \E tab \in Tabs :
         /\ out' = PageDid("tabChange", tab, listeners)
         /\ activeTab' = IF pageMounted THEN tab ELSE activeTab
    /\ UNCHANGED <<race, isPast, now, countdownVars, zone, event, country, dialogVars,
                   lists, pageMounted, listeners, closures, standings, bars>>

\* a tab button is clicked: setActiveTab(tab)
ClickTab ==
    /\ pageMounted
    /\ \E tab \in Tabs :
         /\ activeTab' = tab
         /\ out' = PageDid("clickTab", tab, {})
    /\ UNCHANGED <<race, isPast, now, countdownVars, zone, event, country, dialogVars,
                   lists, pageMounted, listeners, closures, standings, bars>>

InitListeners ==
    /\ race = NoRace
    /\ isPast = FALSE
    /\ now = 0
    /\ out = Idle
    /\ CountdownOff
    /\ DetailsOff

NextListeners == MountPage \/ UnmountPage \/ DispatchTabChange \/ ClickTab

SpecListeners == InitListeners /\ [][NextListeners]_vars

\* C26: after the page is unmounted no "tabChange" listener it registered
\* remains on the document and a later tabChange event invokes no handler
\* of it; mounting and unmounting repeatedly does not accumulate
\* listeners (a mounted page has exactly its own one).
C26_NoListenerLeft ==
    /\ ~pageMounted => listeners = {}
    /\ pageMounted => Cardinality(listeners) = 1
    /\ (out.op = "tabChange" /\ ~pageMounted) => out.invoked = {}

\* what the code does: no listener is ever removed
C26_NothingRemoved == [][listeners \subseteq listeners']_vars

\* the page is unmounted and a tabChange event has run a handler of it
C26_HandlerRunsAfterUnmount ==
    ~pageMounted /\ out.op = "tabChange" /\ out.invoked # {}

\* the page has been mounted MaxMounts times and as many listeners are registered
C26_ListenersAccumulated == pageMounted /\ Cardinality(listeners) = MaxMounts

----------------------------------------------------------------------------
(* The race the countdown targets as time passes, under SpecCountdown      *)

\* the interval has fired at the present instant
TickedNow == mounted /\ out.op = "calculateTimeLeft" /\ out.now = now

\* C27: while the countdown is mounted and the schedule has a race whose
\* valid race instant is after now, the countdown targets the first such
\* race in schedule order; once the start of the targeted race has passed
\* it moves on to the next future race instead of staying at zero.
C27_TargetsFirstFutureRace ==
    (TickedNow /\ FindNext(races, now, 1) # 0)
        => (nextRace = FindNext(races, now, 1) /\ timeLeft # NoTimeLeft)

\* at the instant the races prop was last read the target is the first
\* future race
C27_AtMount ==
    [][(~mounted /\ mounted' /\ FindNext(races, now, 1) # 0)
          => nextRace' = FindNext(races, now, 1)]_vars

\* the targeted race has started, a later race is still ahead, and the
\* countdown stays at zero on the race that started
C27_StaysAtZero ==
    /\ TickedNow
    /\ nextRace # 0
    /\ FindNext(races, now, 1) > nextRace
    /\ timeLeft = NoTimeLeft

----------------------------------------------------------------------------
(* The points bars of the standings tables                                 *)

\* a standings list has at most this many entries
MaxEntries == 3

\* an entry has at most this many points
MaxPoints == 3

\* a JavaScript number that is a ratio num / den of integers, den > 0
Ratio(n, d) == [kind |-> "number", num |-> n, den |-> d]

\* 0 / 0
NaN == [kind |-> "NaN", num |-> 0, den |-> 0]

\* n / 0 for n > 0
PlusInfinity == [kind |-> "Infinity", num |-> 1, den |-> 0]

\* Math.max(...points) of a non-empty list
RECURSIVE MathMax(_, _)
MathMax(ps, i) ==
    IF i = Len(ps) THEN ps[i]
    ELSE LET rest == MathMax(ps, i + 1)
         IN IF ps[i] > rest THEN ps[i] ELSE rest

\* standings.length > 0 ? Math.max(...standings.map(s => parseFloat(s.points))) : 1
maxPoints(ps) == IF Len(ps) > 0 THEN MathMax(ps, 1) ELSE 1

\* (parseFloat(standing.points) / maxPoints) * 100, for points >= 0 and
\* maxPoints >= 0
pointsPercentage(points, max) ==
    IF max = 0
    THEN (IF points = 0 THEN NaN ELSE PlusInfinity)
    ELSE Ratio(points * 100, max)

\* the lists of points a table is given
RECURSIVE PointsLists(_)
PointsLists(n) ==
    IF n = 0 THEN {<<>>}
    ELSE PointsLists(n - 1)
         \cup {Append(ps, p) : ps \in {q \in PointsLists(n - 1) : Len(q) = n - 1},
                               p \in 0..MaxPoints}

TableDid(file) == [Idle EXCEPT !.op = "standings", !.file = file]

\* the table of `file` receives a standings list and renders one bar per
\* entry
RenderStandings(file) ==
    /\ \E ps \in PointsLists(MaxEntries) :
         /\ standings' = ps
         /\ bars' = [i \in 1..Len(ps) |-> pointsPercentage(ps[i], maxPoints(ps))]
    /\ out' = TableDid(file)
    /\ UNCHANGED <<race, isPast, now, countdownVars, zone, event, country, dialogVars,
                   lists, pageMounted, activeTab, listeners, closures>>

DriverStandingsTable == RenderStandings("DriverStandings")

ConstructorStandingsTable == RenderStandings("ConstructorStandings")

InitStandings ==
    /\ race = NoRace
    /\ isPast = FALSE
    /\ now = 0
    /\ out = Idle
    /\ CountdownOff
    /\ DetailsOff

NextStandings == DriverStandingsTable \/ ConstructorStandingsTable

SpecStandings == InitStandings /\ [][NextStandings]_vars

\* the bar is a number from 0 to 100
InRange(b) == b.kind = "number" /\ 0 <= b.num /\ b.num <= 100 * b.den

\* C28: for every standings list with non-negative points the percentage
\* of each entry (points / maxPoints * 100) is a defined number between 0
\* and 100, also when every entry has 0 points and when the list is empty.
C28_PercentageInRange ==
    \A i \in 1..Len(bars) : InRange(bars[i])

\* C28 holds for every list in which some entry has points
C28_WhenSomeoneScored ==
    (\E i \in 1..Len(standings) : standings[i] > 0)
        => \A i \in 1..Len(bars) : InRange(bars[i])

\* every entry has 0 points and every bar is NaN
C28_AllZeroIsNaN ==
    /\ out.op = "standings"
    /\ Len(standings) > 0
    /\ \A i \in 1..Len(standings) : standings[i] = 0 /\ bars[i] = NaN

----------------------------------------------------------------------------
(* Live sessions and the weekend status of the dialog, under SpecDialog    *)

\* the sessions of r whose EventItem in the schedule tab is marked live at
\* `clock`
LiveSessions(r, clock) ==
    LET shown == ScheduleItems(r)
    IN {shown[i] : i \in {j \in 1..Len(shown) :
                             isCurrentEvent(zone, r[shown[j]], clock)}}

\* C29: in the details dialog, whenever a session, in particular the main
\* race, is marked live by the two-hour check, the weekend status is not
\* past and no results request has been issued for the race.
C29_LiveIsNotPast ==
    (isOpen /\ LiveSessions(race, now) # {})
        => /\ ~ClassifiedPast(race, now)
           /\ ~(out.op = "fetchRaceResults" /\ out.now = now)

\* a live session never belongs to a weekend the dialog calls upcoming
C29_LiveIsNotUpcoming ==
    (isOpen /\ LiveSessions(race, now) # {})
        => LET w == getEventDateRange_Details(race)
           IN getRaceStatus_Details(w.startDate, w.endDate, now) # "upcoming"

\* the main race started a millisecond ago: it is live, the weekend is
\* past and the results have been requested
C29_LiveRacePastWeekend ==
    /\ isOpen
    /\ "Race" \in LiveSessions(race, now)
    /\ ClassifiedPast(race, now)
    /\ out.op = "fetchRaceResults" /\ out.now = now
    /\ \E q \in pending : q.race = race

====
